---- MODULE Spec2Model ----
(***************************************************************************)
(* Model of the AEMET forecast normaliser of ClimaCan                      *)
(* (src/src/aemet/classes/data_handler.py): PeriodFormatter.parse,         *)
(* WindDataFormatter.format_wind_df and                                    *)
(* AemetPredictionHandler.process_municipality_data.                       *)
(*                                                                         *)
(* Encodings                                                               *)
(*  - a Python str is a sequence of one-character strings, so that len,    *)
(*    slicing, float() and lower() are computed and not assumed;           *)
(*  - a Python float is an integer number of tenths (12.5 is 125);         *)
(*  - a timedelta is an integer number of seconds, a Timestamp the number  *)
(*    of seconds since day 0 of the model's calendar;                      *)
(*  - a Python value is a tagged record: [t |-> "na"] (None / NaN),        *)
(*    [t |-> "str", s |-> chars], [t |-> "num", n |-> tenths],             *)
(*    [t |-> "list", l |-> <<values>>];                                    *)
(*  - a raised exception is a record [kind |-> <exception class>, ...].    *)
(***************************************************************************)
EXTENDS Integers, Sequences, FiniteSets, TLC

VARIABLES period, parsed, df, reshaped, reshaped_again, payload, results

(* fetch_predictions (src/src/aemet/files/get_canary_predictions.py) *)
VARIABLES municipalities, mun, retries, success, stopped, completed,
          attempts, warned_max, unwritten

(* AemetBaseHandler.fetch_data *)
VARIABLES api, fetched

(* TaskManager.execute_task (src/src/common/task_manager.py) *)
VARIABLES script, store_up, store, escaped

(* StationMetadataFetcher.run (src/src/grafcan/files/update_historical_locations.py) *)
VARIABLES historical_location, n_location, stations_data, csv

(* main of src/src/grafcan/files/historical_data_script.py *)
VARIABLES start_datetime, end_datetime, current_month_start, queried, finished

handler_vars == <<period, parsed, df, reshaped, reshaped_again, payload, results>>

fetch_vars ==
  <<municipalities, mun, retries, success, stopped, completed, attempts, warned_max, unwritten>>

http_vars == <<api, fetched>>

task_vars == <<script, store_up, store, escaped>>

rows_vars == <<historical_location, n_location, stations_data, csv>>

month_vars == <<start_datetime, end_datetime, current_month_start, queried, finished>>

(* The variables of the scripts around the data handler. *)
script_vars == <<fetch_vars, http_vars, task_vars, rows_vars, month_vars>>

vars == <<handler_vars, script_vars>>

(* A call that has not run yet. *)
Pending == [kind |-> "pending"]

(***************************************************************************)
(* The values a part of the program has while another part is checked.     *)
(***************************************************************************)
IdleHandler ==
  /\ period = <<>>
  /\ parsed = Pending
  /\ df = <<>>
  /\ reshaped = Pending
  /\ reshaped_again = Pending
  /\ payload = <<>>
  /\ results = Pending

IdleFetch ==
  /\ municipalities = <<>>
  /\ mun = 0
  /\ retries = 0
  /\ success = FALSE
  /\ stopped = FALSE
  /\ completed = FALSE
  /\ attempts = <<>>
  /\ warned_max = <<>>
  /\ unwritten = <<>>

IdleHttp == api = <<>> /\ fetched = Pending

IdleTask ==
  /\ script = <<>>
  /\ store_up = <<>>
  /\ store = <<>>
  /\ escaped = Pending

IdleRows ==
  /\ historical_location = <<>>
  /\ n_location = 0
  /\ stations_data = <<>>
  /\ csv = Pending

IdleMonths ==
  /\ start_datetime = <<>>
  /\ end_datetime = <<>>
  /\ current_month_start = <<>>
  /\ queried = <<>>
  /\ finished = "idle"

IdleScripts == IdleFetch /\ IdleHttp /\ IdleTask /\ IdleRows /\ IdleMonths

(***************************************************************************)
(* Bounds of the model.                                                    *)
(***************************************************************************)
MaxLen == 5

(* The characters period strings are drawn from. *)
Chars == {"0", "1", "2", "6", "8", "-", ".", "a"}

(***************************************************************************)
(* Python values.                                                          *)
(***************************************************************************)
NA == [t |-> "na"]

Str(s) == [t |-> "str", s |-> s]

Num(n) == [t |-> "num", n |-> n]

List(l) == [t |-> "list", l |-> l]

(***************************************************************************)
(* float(str): optional surrounding blanks, optional sign, decimal digits  *)
(* with at most one point and at least one digit.  Exact for at most one   *)
(* fractional digit, which is all a string of two characters can hold;     *)
(* exponents, underscores, "inf" and "nan" need three characters or more.  *)
(***************************************************************************)
Digits == {"0", "1", "2", "3", "4", "5", "6", "7", "8", "9"}

DigitVal(c) ==
  CASE c = "0" -> 0 [] c = "1" -> 1 [] c = "2" -> 2 [] c = "3" -> 3
    [] c = "4" -> 4 [] c = "5" -> 5 [] c = "6" -> 6 [] c = "7" -> 7
    [] c = "8" -> 8 [] c = "9" -> 9

IsDigits(s) == \A i \in 1..Len(s) : s[i] \in Digits

RECURSIVE DecVal(_)
DecVal(s) ==
  IF s = <<>> THEN 0
  ELSE 10 * DecVal(SubSeq(s, 1, Len(s) - 1)) + DigitVal(s[Len(s)])

RECURSIVE Strip(_)
Strip(s) ==
  IF s = <<>> THEN s
  ELSE IF s[1] = " " THEN Strip(Tail(s))
  ELSE IF s[Len(s)] = " " THEN Strip(SubSeq(s, 1, Len(s) - 1))
  ELSE s

FloatError(s) ==
  [kind |-> "ValueError", text |-> "could not convert string to float", arg |-> s]

(* The unsigned part of a float literal, in tenths; -1 when it is none. *)
Unsigned(u) ==
  LET n == Len(u) IN
  IF n >= 1 /\ IsDigits(u) THEN 10 * DecVal(u)
  ELSE IF n >= 2 /\ u[n] = "." /\ IsDigits(SubSeq(u, 1, n - 1))
    THEN 10 * DecVal(SubSeq(u, 1, n - 1))
  ELSE IF n >= 2 /\ u[n - 1] = "." /\ u[n] \in Digits /\ IsDigits(SubSeq(u, 1, n - 2))
    THEN 10 * DecVal(SubSeq(u, 1, n - 2)) + DigitVal(u[n])
  ELSE -1

Float(s) ==
  LET b == Strip(s)
      signed == b # <<>> /\ b[1] \in {"-", "+"}
      u == IF signed THEN Tail(b) ELSE b
      v == Unsigned(u)
  IN IF v < 0 THEN FloatError(s)
     ELSE [kind |-> "ok", tenths |-> IF signed /\ b[1] = "-" THEN 0 - v ELSE v]

(***************************************************************************)
(* timedelta(hours=h, minutes=m) for floats given in tenths, in seconds.   *)
(***************************************************************************)
timedelta(hoursTenths, minutesTenths) == hoursTenths * 360 + minutesTenths * 6

(***************************************************************************)
(* PeriodFormatter.parse                                                   *)
(***************************************************************************)
Duration(secs) == [kind |-> "ok", secs |-> secs]

(* A plausible slip: the short code read as minutes. *)
parse_short_as_minutes(p) ==
  LET h == Float(p) IN
  IF h.kind # "ok" THEN h ELSE Duration(timedelta(0, h.tenths))

(* A plausible slip: the empty code read as zero hours. *)
parse_short_empty_zero(p) ==
  LET h == Float(p) IN
  IF p = <<>> THEN Duration(0)
  ELSE IF h.kind # "ok" THEN h ELSE Duration(timedelta(h.tenths, 0))

(* len(period) <= 2: return timedelta(hours=float(period)) *)
parse_short(p) ==
  LET h == Float(p) IN
  IF h.kind # "ok" THEN h ELSE Duration(timedelta(h.tenths, 0))

(* A plausible slip: the two slices swapped. *)
parse_hhmm_swapped(p) ==
  LET h == Float(SubSeq(p, 3, 4))
      m == Float(SubSeq(p, 1, 2))
  IN IF h.kind # "ok" THEN h
     ELSE IF m.kind # "ok" THEN m
     ELSE Duration(timedelta(h.tenths, m.tenths))

(* len(period) == 4:                                                       *)
(*   return timedelta(hours=float(period[:2]), minutes=float(period[2:]))  *)
parse_hhmm(p) ==
  LET h == Float(SubSeq(p, 1, 2))
      m == Float(SubSeq(p, 3, 4))
  IN IF h.kind # "ok" THEN h
     ELSE IF m.kind # "ok" THEN m
     ELSE Duration(timedelta(h.tenths, m.tenths))

(* A plausible slip: any other length read by its first two characters. *)
parse_other_lenient(p) == parse_short(SubSeq(p, 1, 2))

(* else: raise ValueError(f"El valor '{period}' no tiene un formato esperado.") *)
parse_other(p) ==
  [kind |-> "ValueError", text |-> "no tiene un formato esperado", arg |-> p]

parse(p) ==
  IF Len(p) <= 2 THEN parse_short(p)
  ELSE IF Len(p) = 4 THEN parse_hhmm(p)
  ELSE parse_other(p)

(***************************************************************************)
(* Specification of parse on its own: every string over Chars of length    *)
(* at most MaxLen is parsed once.                                          *)
(***************************************************************************)
InitParse ==
  /\ \E n \in 0..MaxLen : period \in [1..n -> Chars]
  /\ parsed = Pending
  /\ df = <<>>
  /\ reshaped = Pending
  /\ reshaped_again = Pending
  /\ payload = <<>>
  /\ results = Pending
  /\ IdleScripts

Parse ==
  /\ parsed = Pending
  /\ parsed' = parse(period)
  /\ UNCHANGED <<period, df, reshaped, reshaped_again, payload, results, script_vars>>

NextParse == Parse

SpecParse == InitParse /\ [][NextParse]_vars

(***************************************************************************)
(* What a string of one or two characters denotes, in tenths, written as   *)
(* a table of its shapes: "d", "dd", "-d", "d." and ".d".                  *)
(***************************************************************************)
DigitChars == <<"0", "1", "2", "3", "4", "5", "6", "7", "8", "9">>

Shapes ==
  {<<<<DigitChars[a + 1]>>, 10 * a>> : a \in 0..9}
  \cup {<<<<DigitChars[a + 1], DigitChars[b + 1]>>, 100 * a + 10 * b>> : a, b \in 0..9}
  \cup {<<<<"-", DigitChars[a + 1]>>, 0 - 10 * a>> : a \in 0..9}
  \cup {<<<<DigitChars[a + 1], ".">>, 10 * a>> : a \in 0..9}
  \cup {<<<<".", DigitChars[a + 1]>>, a>> : a \in 0..9}

(* C2: a period of one or two characters that denotes a number N parses to *)
(* exactly N hours and no minutes (3600 * N seconds).                      *)
C2_ShortPeriodIsHours ==
  parsed # Pending /\ Len(period) \in {1, 2} =>
    \A sh \in Shapes :
      sh[1] = period => parsed = [kind |-> "ok", secs |-> 360 * sh[2]]

C2_Witness ==
  /\ period = <<"0", "6">>
  /\ parsed = [kind |-> "ok", secs |-> 6 * 3600]

(* C3: a period of exactly four characters parses to its first two         *)
(* characters as hours plus its last two as minutes.                       *)
C3_FourCharsIsHoursMinutes ==
  parsed # Pending /\ Len(period) = 4 =>
    \A hh, mm \in Shapes :
      (hh[1] = SubSeq(period, 1, 2) /\ mm[1] = SubSeq(period, 3, 4)) =>
        parsed = [kind |-> "ok", secs |-> 360 * hh[2] + 6 * mm[2]]

C3_Witness ==
  /\ period = <<"0", "6", "1", "2">>
  /\ parsed = [kind |-> "ok", secs |-> 6 * 3600 + 12 * 60]

(* C4: a period of length 3 or of length 5 and more yields no duration:    *)
(* parse raises the ValueError whose message carries the string.           *)
C4_OtherLengthRaises ==
  parsed # Pending /\ Len(period) \notin {0, 1, 2, 4} =>
    /\ parsed.kind = "ValueError"
    /\ parsed.text = "no tiene un formato esperado"
    /\ parsed.arg = period

C4_Witness ==
  /\ Len(period) = 5
  /\ parsed.kind = "ValueError"

(* C5: the empty period fails with a ValueError, as a period of three      *)
(* characters does; no duration is ever returned for it.                   *)
C5_EmptyPeriodRaises ==
  parsed # Pending /\ Len(period) \in {0, 3} => parsed.kind = "ValueError"

C5_Witness ==
  /\ period = <<>>
  /\ parsed.kind = "ValueError"

(* C6: whenever parse returns a duration, it is non-negative and shorter   *)
(* than 24 hours.                                                          *)
C6_DurationWithinDay ==
  parsed.kind = "ok" => 0 <= parsed.secs /\ parsed.secs < 24 * 3600

(***************************************************************************)
(* Tables (pandas DataFrame indexed by "datetime"): the set of column      *)
(* names and the rows in order, each row its index value and its cells.    *)
(***************************************************************************)
Table(cols, rows) == [kind |-> "ok", cols |-> cols, rows |-> rows]

Row(idx, cells) == [idx |-> idx, c |-> cells]

isna(v) == v.t = "na"

Index(rows) == {rows[i].idx : i \in 1..Len(rows)}

RECURSIVE Sorted(_)
Sorted(S) ==
  IF S = {} THEN <<>>
  ELSE LET m == CHOOSE x \in S : \A y \in S : x <= y IN <<m>> \o Sorted(S \ {m})

(***************************************************************************)
(* WindDataFormatter                                                       *)
(***************************************************************************)
WindCols == {"direccion", "velocidad", "value"}

Whole(i) == Num(10 * i)

(* direction_mapping, keyed by lower-case strings *)
direction_mapping ==
  { <<<<"n">>, Whole(0)>>, <<<<"n", "e">>, Whole(45)>>, <<<<"e">>, Whole(90)>>,
    <<<<"s", "e">>, Whole(135)>>, <<<<"s">>, Whole(180)>>, <<<<"s", "w">>, Whole(225)>>,
    <<<<"w">>, Whole(270)>>, <<<<"n", "w">>, Whole(315)>>,
    <<<<"c", "a", "l", "m", "a">>, Whole(-1)>> }

UpperChars ==
  <<"A", "B", "C", "D", "E", "F", "G", "H", "I", "J", "K", "L", "M",
    "N", "O", "P", "Q", "R", "S", "T", "U", "V", "W", "X", "Y", "Z">>

LowerChars ==
  <<"a", "b", "c", "d", "e", "f", "g", "h", "i", "j", "k", "l", "m",
    "n", "o", "p", "q", "r", "s", "t", "u", "v", "w", "x", "y", "z">>

(* str.lower() *)
lower(s) ==
  [i \in 1..Len(s) |->
     IF \E k \in 1..Len(UpperChars) : UpperChars[k] = s[i]
     THEN LowerChars[CHOOSE k \in 1..Len(UpperChars) : UpperChars[k] = s[i]]
     ELSE s[i]]

(* direction_mapping.get(key, None) *)
mapping_get(key) ==
  IF \E e \in direction_mapping : e[1] = key
  THEN (CHOOSE e \in direction_mapping : e[1] = key)[2]
  ELSE NA

(* The rows of one group, in input order. *)
group(rows, k) == SelectSeq(rows, LAMBDA r : r.idx = k)

(* A plausible slip: iloc[0] without dropna(). *)
first_valid_no_dropna(rows, col) ==
  IF rows = <<>> THEN NA ELSE rows[1].c[col]

(* lambda x: x.dropna().iloc[0] if not x.dropna().empty else None *)
first_valid(rows, col) ==
  LET kept == SelectSeq(rows, LAMBDA r : ~isna(r.c[col])) IN
  IF kept = <<>> THEN NA ELSE kept[1].c[col]

(* A plausible slip: one output row per input row, no grouping. *)
group_keys_ungrouped(rows) == [i \in 1..Len(rows) |-> rows[i].idx]

(* groupby(level=0): the distinct index values, sorted *)
group_keys(rows) == Sorted(Index(rows))

(* lambda x: x[0] if isinstance(x, list) and len(x) > 0 else x *)
first_element(x) ==
  IF x.t = "list" /\ Len(x.l) > 0 THEN x.l[1] ELSE x

(* A plausible slip: errors="ignore", which leaves what it cannot parse. *)
to_numeric_ignore(x) ==
  IF x.t = "str"
  THEN LET f == Float(x.s) IN IF f.kind = "ok" THEN Num(f.tenths) ELSE x
  ELSE x

(* pd.to_numeric(..., errors="coerce"), one cell: a number stays, a string *)
(* is parsed, anything else (None, a list, an unparsable string) is NaN.   *)
to_numeric(x) ==
  IF x.t = "num" THEN x
  ELSE IF x.t = "str"
    THEN LET f == Float(x.s) IN IF f.kind = "ok" THEN Num(f.tenths) ELSE NA
  ELSE NA

(* A plausible slip: the lookup made without lower(). *)
degrees_case_sensitive(d) == IF d.t = "str" THEN mapping_get(d.s) ELSE NA

(* lambda d: direction_mapping.get(d.lower(), None) if isinstance(d, str) else None *)
degrees(d) == IF d.t = "str" THEN mapping_get(lower(d.s)) ELSE NA

(* A plausible slip: "value" unwrapped like the other two columns. *)
velocidad_max_unwrapped(picked) == to_numeric(first_element(picked))

(* The cell of "velocidad_max": renamed from "value", then to_numeric. *)
velocidad_max_cell(picked) == to_numeric(picked)

KeyError(cols) == [kind |-> "KeyError", text |-> "Column(s) do not exist", arg |-> cols]

OutCols == {"direccion", "velocidad", "velocidad_max", "direccion_degrees"}

format_wind_row(rows, k) ==
  LET g == group(rows, k)
      direccion == first_element(first_valid(g, "direccion"))
  IN Row(k, [col \in OutCols |->
       CASE col = "direccion" -> direccion
         [] col = "velocidad" -> to_numeric(first_element(first_valid(g, "velocidad")))
         [] col = "velocidad_max" -> velocidad_max_cell(first_valid(g, "value"))
         [] col = "direccion_degrees" -> degrees(direccion)])

(* A plausible slip: rename(columns={"value": "velocidad_max"}) left out. *)
format_wind_df_no_rename(t) ==
  IF ~(WindCols \subseteq t.cols) THEN KeyError(WindCols \ t.cols)
  ELSE LET keys == group_keys(t.rows)
           cols == (OutCols \ {"velocidad_max"}) \cup {"value"}
       IN Table(cols,
                [i \in 1..Len(keys) |->
                   Row(keys[i],
                       [col \in cols |->
                          format_wind_row(t.rows, keys[i]).c[
                            IF col = "value" THEN "velocidad_max" ELSE col]])])

format_wind_df(t) ==
  IF ~(WindCols \subseteq t.cols) THEN KeyError(WindCols \ t.cols)
  ELSE LET keys == group_keys(t.rows) IN
       Table(OutCols, [i \in 1..Len(keys) |-> format_wind_row(t.rows, keys[i])])

(***************************************************************************)
(* Specification of format_wind_df on its own: every wind table of at most *)
(* MaxRows rows with the three columns of its contract is reshaped once.   *)
(* A row varies one column over the column's whole value set and the other *)
(* two over their usual values.                                            *)
(***************************************************************************)
MaxRows == 2

Stamps == {6 * 3600, 18 * 3600}

DirUsual == {NA, Str(<<"N">>)}

DirVals ==
  DirUsual \cup {Str(<<"n", "e">>), Str(<<"X", "X">>), List(<<Str(<<"N", "E">>)>>), List(<<>>)}

SpeedUsual == {NA, List(<<Whole(3)>>)}

SpeedVals ==
  SpeedUsual \cup {Str(<<"3">>), Str(<<"a">>), List(<<Str(<<"3">>), Str(<<"4">>)>>)}

ValueUsual == {NA, Whole(12)}

ValueVals == ValueUsual \cup {List(<<Whole(12)>>), Str(<<"1", "2">>), Str(<<"a">>)}

WindCells ==
  {[direccion |-> d, velocidad |-> v, value |-> x] :
     d \in DirVals, v \in SpeedUsual, x \in ValueUsual}
  \cup {[direccion |-> d, velocidad |-> v, value |-> x] :
     d \in DirUsual, v \in SpeedVals, x \in ValueUsual}
  \cup {[direccion |-> d, velocidad |-> v, value |-> x] :
     d \in DirUsual, v \in SpeedUsual, x \in ValueVals}

WindRows == {Row(k, c) : k \in Stamps, c \in WindCells}

InitReshape ==
  /\ \E n \in 0..MaxRows : \E rows \in [1..n -> WindRows] : df = Table(WindCols, rows)
  /\ reshaped = Pending
  /\ reshaped_again = Pending
  /\ period = <<>>
  /\ parsed = Pending
  /\ payload = <<>>
  /\ results = Pending
  /\ IdleScripts

Reshape ==
  /\ reshaped = Pending
  /\ reshaped' = format_wind_df(df)
  /\ UNCHANGED <<period, parsed, df, reshaped_again, payload, results, script_vars>>

(* format_wind_df called on the table a first call returned. *)
ReshapeAgain ==
  /\ reshaped.kind = "ok"
  /\ reshaped_again = Pending
  /\ reshaped_again' = format_wind_df(reshaped)
  /\ UNCHANGED <<period, parsed, df, reshaped, payload, results, script_vars>>

NextReshape == Reshape \/ ReshapeAgain

SpecReshape == InitReshape /\ [][NextReshape]_vars

(* The positions of the input rows stamped k. *)
GroupAt(k) == {i \in 1..Len(df.rows) : df.rows[i].idx = k}

(* The position of the first input row stamped k whose column col is not   *)
(* missing; 0 when every row of the group misses it.                       *)
FirstAt(k, col) ==
  LET has == {i \in GroupAt(k) : df.rows[i].c[col].t # "na"} IN
  IF has = {} THEN 0 ELSE CHOOSE i \in has : \A j \in has : i <= j

Picked(k, col) == IF FirstAt(k, col) = 0 THEN NA ELSE df.rows[FirstAt(k, col)].c[col]

(* C8: the reshaped table has exactly one row per distinct input           *)
(* timestamp: none lost, none repeated, none invented.                     *)
C8_OneRowPerTimestamp ==
  reshaped # Pending =>
    /\ reshaped.kind = "ok"
    /\ Index(reshaped.rows) = Index(df.rows)
    /\ Len(reshaped.rows) = Cardinality(Index(df.rows))

C8_Witness ==
  /\ reshaped.kind = "ok"
  /\ Len(df.rows) = 2
  /\ df.rows[1].idx = df.rows[2].idx
  /\ Len(reshaped.rows) = 1

(* C9: per timestamp and per field, the output derives from the first      *)
(* non-missing input value in row order; a group whose rows all miss the   *)
(* field gives a missing output, and reshape does not fail.                *)
C9_FirstNonMissing ==
  reshaped # Pending =>
    /\ reshaped.kind = "ok"
    /\ \A i \in 1..Len(reshaped.rows) :
         LET k == reshaped.rows[i].idx
             out == reshaped.rows[i].c
         IN /\ out["direccion"] = first_element(Picked(k, "direccion"))
            /\ out["velocidad"] = to_numeric(first_element(Picked(k, "velocidad")))
            /\ out["velocidad_max"] = to_numeric(Picked(k, "value"))
            /\ FirstAt(k, "direccion") = 0 => out["direccion"] = NA
            /\ FirstAt(k, "velocidad") = 0 => out["velocidad"] = NA
            /\ FirstAt(k, "value") = 0 => out["velocidad_max"] = NA

C9_Witness ==
  /\ reshaped.kind = "ok"
  /\ Len(df.rows) = 2
  /\ df.rows[1].idx = df.rows[2].idx
  /\ df.rows[1].c["value"] = NA
  /\ df.rows[2].c["value"] = Whole(12)
  /\ df.rows[1].c["direccion"] = NA
  /\ df.rows[2].c["direccion"] = NA
  /\ reshaped.rows[1].c["velocidad_max"] = Whole(12)
  /\ reshaped.rows[1].c["direccion"] = NA

(* The two rows of the worked example: direction "N", speed [3] and no     *)
(* value; then no direction, no speed and the given value.                 *)
ExampleRows(v) ==
  << Row(6 * 3600, [direccion |-> Str(<<"N">>), velocidad |-> List(<<Whole(3)>>), value |-> NA]),
     Row(6 * 3600, [direccion |-> NA, velocidad |-> NA, value |-> v]) >>

ExampleOut(gust) ==
  << Row(6 * 3600, [direccion |-> Str(<<"N">>), velocidad |-> Whole(3),
                    velocidad_max |-> gust, direccion_degrees |-> Whole(0)]) >>

(* C10 as claimed: in each of the three fields a picked single-element     *)
(* list is unwrapped and any other value kept, so the example with value   *)
(* [12] gives speed_max 12.                                                *)
C10_UnwrapAllThree ==
  reshaped # Pending =>
    /\ reshaped.kind = "ok"
    /\ \A i \in 1..Len(reshaped.rows) :
         LET k == reshaped.rows[i].idx
             out == reshaped.rows[i].c
             unwrap(x) == IF x.t = "list" /\ Len(x.l) = 1 THEN x.l[1] ELSE x
         IN /\ out["direccion"] = unwrap(Picked(k, "direccion"))
            /\ out["velocidad"] = to_numeric(unwrap(Picked(k, "velocidad")))
            /\ out["velocidad_max"] = to_numeric(unwrap(Picked(k, "value")))
    /\ df.rows = ExampleRows(List(<<Whole(12)>>)) => reshaped.rows = ExampleOut(Whole(12))

(* C10 as amended: a picked direction or speed that is a non-empty list is *)
(* replaced by its first element, whatever its length, and any other value *)
(* kept; the picked value is never unwrapped, so a list there gives a      *)
(* missing speed_max: the example with value [12] gives speed_max missing, *)
(* with value 12 it gives speed_max 12.                                    *)
C10_UnwrapDirectionAndSpeed ==
  reshaped # Pending =>
    /\ reshaped.kind = "ok"
    /\ \A i \in 1..Len(reshaped.rows) :
         LET k == reshaped.rows[i].idx
             out == reshaped.rows[i].c
             d == Picked(k, "direccion")
             v == Picked(k, "velocidad")
             x == Picked(k, "value")
         IN /\ out["direccion"] = IF d.t = "list" /\ d.l # <<>> THEN d.l[1] ELSE d
            /\ out["velocidad"] = to_numeric(IF v.t = "list" /\ v.l # <<>> THEN v.l[1] ELSE v)
            /\ out["velocidad_max"] = IF x.t = "list" THEN NA ELSE to_numeric(x)
    /\ df.rows = ExampleRows(List(<<Whole(12)>>)) => reshaped.rows = ExampleOut(NA)
    /\ df.rows = ExampleRows(Whole(12)) => reshaped.rows = ExampleOut(Whole(12))

C10_Witness ==
  /\ df.rows = ExampleRows(List(<<Whole(12)>>))
  /\ reshaped.kind = "ok"
  /\ reshaped.rows = ExampleOut(NA)

(***************************************************************************)
(* AemetPredictionHandler.process_municipality_data                        *)
(*                                                                         *)
(* The payload is response["data"][0]["prediccion"]["dia"]: a sequence of  *)
(* Day Blocks, each the sequence of its (key, value) items in dict order.  *)
(* A date string is the number of its day; a Reading Record is a function  *)
(* from the keys it carries to their values.                               *)
(***************************************************************************)
Date(d) == [t |-> "str", day |-> d]

(* day.get("fecha") *)
fecha(day) ==
  LET at == {i \in 1..Len(day) : day[i].key = "fecha"} IN
  IF at = {} THEN NA ELSE day[CHOOSE i \in at : TRUE].value

(* pd.DataFrame(value): the columns are the keys any record carries, a key *)
(* a record lacks is NaN in its row.                                       *)
DataFrame(recs) ==
  LET cols == UNION {DOMAIN recs[i] : i \in 1..Len(recs)} IN
  [cols |-> cols,
   rows |-> [i \in 1..Len(recs) |->
              [col \in cols |-> IF col \in DOMAIN recs[i] THEN recs[i][col] ELSE NA]]]

TypeError(text) == [kind |-> "TypeError", text |-> text]

(* A plausible slip: a period that does not parse counted as no offset. *)
parse_cell_lenient(v) ==
  IF v.t = "str" /\ parse(v.s).kind = "ok" THEN parse(v.s) ELSE Duration(0)

(* PeriodFormatter.parse applied to one cell of df["periodo"]: len() of a  *)
(* NaN or of a number raises TypeError.                                    *)
parse_cell(v) == IF v.t = "str" THEN parse(v.s) ELSE TypeError("object has no len()")

(* pd.to_datetime(date), in seconds *)
to_datetime(date) == date.day * 86400

(* A plausible slip: the base date left out of the index. *)
datetime_index_no_date(date, delta) == delta.secs

(* pd.to_datetime(date) + df["periodo"], one row *)
datetime_index(date, delta) == to_datetime(date) + delta.secs

(* df.set_index("datetime", drop=True); df.drop(columns=["periodo"]) *)
drop_periodo(cols) == cols \ {"periodo"}

WindKey == "vientoAndRachaMax"

(* A plausible slip: the wind table recorded without format_wind_df. *)
measurement_table_never_reshape(date, key, recs) ==
  LET frame == DataFrame(recs) IN
  IF "periodo" \notin frame.cols THEN KeyError({"periodo"})
  ELSE
    LET deltas == [i \in 1..Len(recs) |-> parse_cell(frame.rows[i]["periodo"])]
        bad == {i \in 1..Len(recs) : deltas[i].kind # "ok"}
    IN IF bad # {} THEN deltas[CHOOSE i \in bad : \A j \in bad : i <= j]
       ELSE Table(drop_periodo(frame.cols),
                  [i \in 1..Len(recs) |->
                     Row(datetime_index(date, deltas[i]),
                         [col \in drop_periodo(frame.cols) |-> frame.rows[i][col]])])

(* Lines 343-355: the table of one measurement list, or the exception.     *)
measurement_table(date, key, recs) ==
  LET frame == DataFrame(recs) IN
  IF "periodo" \notin frame.cols THEN KeyError({"periodo"})
  ELSE
    LET deltas == [i \in 1..Len(recs) |-> parse_cell(frame.rows[i]["periodo"])]
        bad == {i \in 1..Len(recs) : deltas[i].kind # "ok"}
    IN IF bad # {} THEN deltas[CHOOSE i \in bad : \A j \in bad : i <= j]
       ELSE
         LET cols == drop_periodo(frame.cols)
             indexed ==
               Table(cols,
                     [i \in 1..Len(recs) |->
                        Row(datetime_index(date, deltas[i]),
                            [col \in cols |-> frame.rows[i][col]])])
         IN IF key = WindKey THEN format_wind_df(indexed) ELSE indexed

(* isinstance(value, str) or not isinstance(value, list) or not value *)
is_skipped(value) == value.t = "str" \/ value.t # "list" \/ value.l = <<>>

(* A plausible slip: the mapping started afresh at every assignment. *)
Put_replace(f, k, v) == [x \in {k} |-> v]

Put(f, k, v) == [x \in (DOMAIN f) \cup {k} |-> IF x = k THEN v ELSE f[x]]

(* Lines 325-360.  day_blocks walks the Day Blocks from block i on;        *)
(* day_items walks the items of one Day Block from item i on; an exception *)
(* raised for one measurement list ends both loops.                        *)
RECURSIVE day_items(_, _, _, _, _), day_blocks(_, _, _, _)

(* dict_of_pred[key] = df, then the next item *)
record_table(day, i, date, dict_of_pred, warned, t) ==
  IF t.kind # "ok" THEN t
  ELSE day_items(day, i + 1, date, Put(dict_of_pred, day[i].key, t), warned)

(* A plausible slip: break in the place of continue. *)
day_items_break(day, i, date, dict_of_pred, warned) ==
  IF i > Len(day) THEN [kind |-> "ok", dict |-> dict_of_pred, warnings |-> warned]
  ELSE IF is_skipped(day[i].value)
    THEN [kind |-> "ok", dict |-> dict_of_pred,
          warnings |-> Append(warned, <<date, day[i].key>>)]
  ELSE record_table(day, i, date, dict_of_pred, warned,
                    measurement_table(date, day[i].key, day[i].value.l))

day_items(day, i, date, dict_of_pred, warned) ==
  IF i > Len(day) THEN [kind |-> "ok", dict |-> dict_of_pred, warnings |-> warned]
  ELSE IF is_skipped(day[i].value)
    THEN day_items(day, i + 1, date, dict_of_pred, Append(warned, <<date, day[i].key>>))
  ELSE record_table(day, i, date, dict_of_pred, warned,
                    measurement_table(date, day[i].key, day[i].value.l))

(* A plausible slip: results[date] assigned without the test of dict_of_pred. *)
record_day_always(pred, i, res, date, d) ==
  IF d.kind # "ok" THEN d
  ELSE day_blocks(pred, i + 1, Put(res, date, d.dict), d.warnings)

(* if dict_of_pred: results[date] = dict_of_pred, then the next Day Block *)
record_day(pred, i, res, date, d) ==
  IF d.kind # "ok" THEN d
  ELSE day_blocks(pred, i + 1,
                  IF DOMAIN d.dict # {} THEN Put(res, date, d.dict) ELSE res,
                  d.warnings)

day_blocks(pred, i, res, warned) ==
  IF i > Len(pred) THEN [kind |-> "ok", tables |-> res, warnings |-> warned]
  ELSE record_day(pred, i, res, fecha(pred[i]),
                  day_items(pred[i], 1, fecha(pred[i]), <<>>, warned))

ValueErrorUrl(text) == [kind |-> "ValueError", text |-> text, arg |-> "full_url"]

(* A plausible slip: the final test of results left out. *)
raise_if_empty_never(r) == r

(* if not results: raise ValueError(...); return results *)
raise_if_empty(r) ==
  IF r.kind = "ok" /\ DOMAIN r.tables = {}
  THEN ValueErrorUrl("No se encontraron datos procesados para la URL")
  ELSE r

process_municipality_data(response) ==
  IF response.data = "[{}]" THEN ValueErrorUrl("No se pudieron obtener datos para la URL")
  ELSE raise_if_empty(day_blocks(response.dia, 1, <<>>, <<>>))

(***************************************************************************)
(* Specification of process_municipality_data: every payload of at most    *)
(* MaxDays Day Blocks is processed once.  One Day Block of a payload       *)
(* varies over every pair of a temperature value and a wind value with     *)
(* lists of at most MaxRecs Reading Records; the others are plain blocks.  *)
(***************************************************************************)
MaxDays == 2

MaxRecs == 2

P06 == Str(<<"0", "6">>)

P0600 == Str(<<"0", "6", "0", "0">>)

P1800 == Str(<<"1", "8", "0", "0">>)

P126 == Str(<<"1", "2", "6">>)

TempRecs ==
  {[periodo |-> p, value |-> Str(<<"9">>)] : p \in {P06, P0600, P1800, P126}}
  \cup {[periodo |-> P06]}

WindRecs ==
  { [periodo |-> P06, direccion |-> List(<<Str(<<"N">>)>>), velocidad |-> List(<<Str(<<"3">>)>>)],
    [periodo |-> P06, value |-> Str(<<"1", "2">>)],
    [periodo |-> P0600, value |-> Str(<<"1", "2">>)],
    [periodo |-> P126, value |-> Str(<<"1", "2">>)] }

Lists(recs) == {List(l) : l \in UNION {[1..n -> recs] : n \in 0..MaxRecs}}

TempValues == Lists(TempRecs) \cup {Str(<<"x">>), NA}

WindValues == Lists(WindRecs) \cup {Str(<<"x">>)}

DayBlock(temp, wind) ==
  << [key |-> "temperatura", value |-> temp],
     [key |-> WindKey, value |-> wind],
     [key |-> "orto", value |-> Str(<<"0", "7", ":", "4", "5">>)] >>

PlainDays ==
  { DayBlock(Str(<<"x">>), List(<<>>)),
    DayBlock(List(<<[periodo |-> P06, value |-> Str(<<"9">>)]>>), List(<<>>)) }

(* The day blocks get consecutive dates. *)
Dated(days) ==
  [i \in 1..Len(days) |-> Append(days[i], [key |-> "fecha", value |-> Date(i)])]

(* n plain day blocks, the k-th replaced by the day block rich (none when k = 0) *)
DaySeq(n, k, rich, plain) == [i \in 1..n |-> IF i = k THEN rich ELSE plain[i]]

InitBuild ==
  /\ \/ payload = [data |-> "[{}]", dia |-> <<>>]
     \/ \E n \in 0..MaxDays : \E k \in 0..n :
          \E plain \in [1..n -> PlainDays] :
            \E t \in TempValues, w \in WindValues :
              payload = [data |-> "dia", dia |-> Dated(DaySeq(n, k, DayBlock(t, w), plain))]
  /\ results = Pending
  /\ period = <<>>
  /\ parsed = Pending
  /\ df = <<>>
  /\ reshaped = Pending
  /\ reshaped_again = Pending
  /\ IdleScripts

Build ==
  /\ results = Pending
  /\ results' = process_municipality_data(payload)
  /\ UNCHANGED <<period, parsed, df, reshaped, reshaped_again, payload, script_vars>>

NextBuild == Build

SpecBuild == InitBuild /\ [][NextBuild]_vars

(* The measurement list a result table was built from. *)
SourceList(date, key) ==
  LET day == payload.dia[date.day] IN
  (day[CHOOSE i \in 1..Len(day) : day[i].key = key].value).l

Stamp(date, rec) == date.day * 86400 + parse(rec["periodo"].s).secs

(* C1: every row of a built table is keyed by the Day Block's date plus    *)
(* parse of its record's period, every record's timestamp is a key of the  *)
(* table, and the table has no period column.                              *)
C1_RowKeyIsDatePlusPeriod ==
  results.kind = "ok" =>
    \A date \in DOMAIN results.tables :
      \A key \in DOMAIN results.tables[date] :
        LET t == results.tables[date][key]
            recs == SourceList(date, key)
        IN /\ "periodo" \notin t.cols
           /\ \A i \in 1..Len(t.rows) : "periodo" \notin DOMAIN t.rows[i].c
           /\ Index(t.rows) = {Stamp(date, recs[i]) : i \in 1..Len(recs)}
           /\ key # WindKey =>
                /\ Len(t.rows) = Len(recs)
                /\ \A i \in 1..Len(recs) : t.rows[i].idx = Stamp(date, recs[i])

C1_Witness ==
  /\ results.kind = "ok"
  /\ Len(payload.dia) = 2
  /\ Date(2) \in DOMAIN results.tables
  /\ "temperatura" \in DOMAIN results.tables[Date(2)]
  /\ LET t == results.tables[Date(2)]["temperatura"] IN
       /\ Len(t.rows) = 2
       /\ t.rows[1].idx = 2 * 86400 + 6 * 3600
       /\ t.rows[2].idx = 2 * 86400 + 18 * 3600
       /\ t.cols = {"value"}

(* C7: within every table build returns, wind or not, the row timestamps   *)
(* are pairwise distinct.                                                  *)
C7_TimestampsDistinct ==
  results.kind = "ok" =>
    \A date \in DOMAIN results.tables :
      \A key \in DOMAIN results.tables[date] :
        LET rows == results.tables[date][key].rows IN
        \A i, j \in 1..Len(rows) : rows[i].idx = rows[j].idx => i = j

(* C11: the reshaped table has exactly the columns direccion, velocidad,   *)
(* velocidad_max and direccion_degrees: no column value remains, and       *)
(* velocidad_max holds the reading picked from value.                      *)
C11_ValueRenamedToSpeedMax ==
  reshaped.kind = "ok" =>
    /\ reshaped.cols = {"direccion", "velocidad", "velocidad_max", "direccion_degrees"}
    /\ \A i \in 1..Len(reshaped.rows) :
         LET out == reshaped.rows[i].c
             x == Picked(reshaped.rows[i].idx, "value")
         IN /\ DOMAIN out = {"direccion", "velocidad", "velocidad_max", "direccion_degrees"}
            /\ x.t = "num" => out["velocidad_max"] = x
            /\ x.t = "na" => out["velocidad_max"] = NA
            /\ x = Str(<<"1", "2">>) => out["velocidad_max"] = Whole(12)

C11_Witness ==
  /\ reshaped.kind = "ok"
  /\ Len(df.rows) = 1
  /\ df.rows[1].c["value"] = Str(<<"1", "2">>)
  /\ "value" \in df.cols
  /\ "value" \notin reshaped.cols
  /\ reshaped.rows[1].c["velocidad_max"] = Whole(12)

(* C12: velocidad and velocidad_max of every reshaped row are a number or  *)
(* missing; a picked string that is no number becomes missing, and reshape *)
(* does not raise.                                                         *)
C12_SpeedsNumericOrMissing ==
  reshaped # Pending =>
    /\ reshaped.kind = "ok"
    /\ \A i \in 1..Len(reshaped.rows) :
         LET out == reshaped.rows[i].c
             k == reshaped.rows[i].idx
         IN /\ out["velocidad"].t \in {"num", "na"}
            /\ out["velocidad_max"].t \in {"num", "na"}
            /\ Picked(k, "velocidad") = Str(<<"a">>) => out["velocidad"] = NA
            /\ Picked(k, "value") = Str(<<"a">>) => out["velocidad_max"] = NA
            /\ Picked(k, "velocidad") = Str(<<"3">>) => out["velocidad"] = Whole(3)

C12_Witness ==
  /\ reshaped.kind = "ok"
  /\ Len(df.rows) = 2
  /\ df.rows[1].idx = df.rows[2].idx
  /\ df.rows[1].c["velocidad"] = Str(<<"a">>)
  /\ df.rows[2].c["value"] = Str(<<"a">>)
  /\ reshaped.rows[1].c["velocidad"] = NA
  /\ reshaped.rows[1].c["velocidad_max"] = NA

(* The compass table of the specification and the letters it is written   *)
(* with, each with its capital.                                            *)
CompassTable ==
  { <<<<"n">>, 0>>, <<<<"n", "e">>, 45>>, <<<<"e">>, 90>>, <<<<"s", "e">>, 135>>,
    <<<<"s">>, 180>>, <<<<"s", "w">>, 225>>, <<<<"w">>, 270>>, <<<<"n", "w">>, 315>>,
    <<<<"c", "a", "l", "m", "a">>, -1>> }

Capitals ==
  { <<"n", "N">>, <<"e", "E">>, <<"s", "S">>, <<"w", "W">>,
    <<"c", "C">>, <<"a", "A">>, <<"l", "L">>, <<"m", "M">> }

SameIgnoringCase(key, s) ==
  /\ Len(key) = Len(s)
  /\ \A i \in 1..Len(key) : s[i] = key[i] \/ <<key[i], s[i]>> \in Capitals

(* C13: direccion_degrees is the compass table's entry for the direction   *)
(* read without regard to case; a direction outside the table or one that  *)
(* is no string gives a missing direccion_degrees, and no error.           *)
C13_DegreesLookup ==
  reshaped # Pending =>
    /\ reshaped.kind = "ok"
    /\ \A i \in 1..Len(reshaped.rows) :
         LET d == reshaped.rows[i].c["direccion"]
             deg == reshaped.rows[i].c["direccion_degrees"]
         IN /\ d.t # "str" => deg = NA
            /\ d.t = "str" =>
                 /\ \A e \in CompassTable : SameIgnoringCase(e[1], d.s) => deg = Whole(e[2])
                 /\ (\A e \in CompassTable : ~SameIgnoringCase(e[1], d.s)) => deg = NA

C13_Witness ==
  /\ reshaped.kind = "ok"
  /\ Len(df.rows) = 2
  /\ Len(reshaped.rows) = 2
  /\ df.rows[1].c["direccion"] = List(<<Str(<<"N", "E">>)>>)
  /\ df.rows[2].c["direccion"] = Str(<<"n", "e">>)
  /\ \A i \in 1..2 : reshaped.rows[i].c["direccion_degrees"] = Whole(45)

(* C14: reshape applied to a table reshape returned succeeds and returns   *)
(* an equal table. The aggregation of format_wind_df names the column      *)
(* "value", which its own output has renamed, so the second call raises.   *)
C14_ReshapeIdempotent ==
  reshaped_again # Pending => reshaped_again = reshaped

(***************************************************************************)
(* The payload as the claims about build read it.                          *)
(***************************************************************************)
Items ==
  UNION {{<<d, i>> : i \in 1..Len(payload.dia[d])} : d \in 1..Len(payload.dia)}

ItemAt(x) == payload.dia[x[1]][x[2]]

(* The date a Day Block carries. *)
DayDate(d) ==
  LET day == payload.dia[d] IN
  day[CHOOSE i \in 1..Len(day) : day[i].key = "fecha"].value

NonEmptyList(v) == v.t = "list" /\ Len(v.l) > 0

Measurements == {x \in Items : NonEmptyList(ItemAt(x).value)}

HasTable(d, key) ==
  /\ results.kind = "ok"
  /\ DayDate(d) \in DOMAIN results.tables
  /\ key \in DOMAIN results.tables[DayDate(d)]

Warned(d, key) == \E n \in 1..Len(results.warnings) : results.warnings[n] = <<DayDate(d), key>>

(* A measurement list every period of which parses and, for the wind key,  *)
(* which carries the three columns of a wind table.                        *)
WellFormed(item) ==
  /\ \A n \in 1..Len(item.value.l) : parse(item.value.l[n]["periodo"].s).kind = "ok"
  /\ item.key = "vientoAndRachaMax" =>
       {"direccion", "velocidad", "value"}
         \subseteq UNION {DOMAIN item.value.l[n] : n \in 1..Len(item.value.l)}

(* C15: a key whose value is not a non-empty list is skipped with a        *)
(* warning and gets no table; the other keys of its Day Block and the      *)
(* later Day Blocks get their tables, and build fails only if a            *)
(* measurement list itself is not well formed.                             *)
C15_SkippedWithWarning ==
  (results # Pending /\ payload.data = "dia") =>
    /\ results.kind = "ok" =>
         \A x \in Items :
           IF NonEmptyList(ItemAt(x).value)
           THEN HasTable(x[1], ItemAt(x).key)
           ELSE ~HasTable(x[1], ItemAt(x).key) /\ Warned(x[1], ItemAt(x).key)
    /\ (Measurements # {} /\ \A x \in Measurements : WellFormed(ItemAt(x)))
         => results.kind = "ok"

C15_Witness ==
  /\ results.kind = "ok"
  /\ Len(payload.dia) = 2
  /\ payload.dia[1][1].value = Str(<<"x">>)
  /\ NonEmptyList(payload.dia[1][2].value)
  /\ NonEmptyList(payload.dia[2][1].value)
  /\ ~HasTable(1, "temperatura")
  /\ Warned(1, "temperatura")
  /\ HasTable(1, "vientoAndRachaMax")
  /\ HasTable(2, "temperatura")

MeasuredKeys(d) == {ItemAt(x).key : x \in {y \in Measurements : y[1] = d}}

BuiltTable(date, recs) ==
  [kind |-> "ok",
   cols |-> UNION {DOMAIN recs[n] : n \in 1..Len(recs)} \ {"periodo"},
   rows |-> [n \in 1..Len(recs) |->
               [idx |-> Stamp(date, recs[n]),
                c |-> [col \in UNION {DOMAIN recs[m] : m \in 1..Len(recs)} \ {"periodo"} |->
                         IF col \in DOMAIN recs[n] THEN recs[n][col] ELSE NA]]]]

(* C17: the table recorded under vientoAndRachaMax is the reshaped one,    *)
(* the table recorded under any other key is the table as built.           *)
C17_ReshapeOnlyWind ==
  results.kind = "ok" =>
    \A date \in DOMAIN results.tables :
      \A key \in DOMAIN results.tables[date] :
        IF key = "vientoAndRachaMax"
        THEN /\ results.tables[date][key] = format_wind_df(BuiltTable(date, SourceList(date, key)))
             /\ results.tables[date][key].cols
                  = {"direccion", "velocidad", "velocidad_max", "direccion_degrees"}
        ELSE results.tables[date][key] = BuiltTable(date, SourceList(date, key))

C17_Witness ==
  /\ results.kind = "ok"
  /\ Date(1) \in DOMAIN results.tables
  /\ DOMAIN results.tables[Date(1)] = {"temperatura", "vientoAndRachaMax"}
  /\ results.tables[Date(1)]["temperatura"].cols = {"value"}
  /\ Len(results.tables[Date(1)]["temperatura"].rows) = 2
  /\ Len(SourceList(Date(1), "vientoAndRachaMax")) = 2
  /\ Len(results.tables[Date(1)]["vientoAndRachaMax"].rows) = 1
  /\ results.tables[Date(1)]["vientoAndRachaMax"].rows[1].c["direccion_degrees"] = Whole(0)
  /\ results.tables[Date(1)]["vientoAndRachaMax"].rows[1].c["velocidad_max"] = Whole(12)

AllSkipped(d) == \A x \in Measurements : x[1] # d

(* C18: every date of the result has at least one table; a Day Block all   *)
(* of whose keys are skipped has no entry, and does not make build fail    *)
(* when another Day Block yields a table.                                  *)
C18_NoEmptyDay ==
  (results # Pending /\ payload.data = "dia") =>
    /\ results.kind = "ok" =>
         /\ \A date \in DOMAIN results.tables : DOMAIN results.tables[date] # {}
         /\ \A d \in 1..Len(payload.dia) :
              AllSkipped(d) => DayDate(d) \notin DOMAIN results.tables
    /\ ( /\ \E d \in 1..Len(payload.dia) : AllSkipped(d)
         /\ Measurements # {}
         /\ \A x \in Measurements : WellFormed(ItemAt(x)) )
         => results.kind = "ok"

C18_Witness ==
  /\ results.kind = "ok"
  /\ Len(payload.dia) = 2
  /\ AllSkipped(1)
  /\ ~AllSkipped(2)
  /\ DOMAIN results.tables = {Date(2)}

(* C19: when no Day Block yields a table, build raises the ValueError that *)
(* carries the URL; it never returns an empty mapping.                     *)
C19_NoTableRaises ==
  (results # Pending /\ payload.data = "dia") =>
    /\ Measurements = {} =>
         /\ results.kind = "ValueError"
         /\ results.text = "No se encontraron datos procesados para la URL"
         /\ results.arg = "full_url"
    /\ results.kind = "ok" => DOMAIN results.tables # {}

C19_Witness ==
  /\ payload.data = "dia"
  /\ Len(payload.dia) = 2
  /\ Measurements = {}
  /\ payload.dia[1][2].value = List(<<>>)
  /\ results.kind = "ValueError"
  /\ results.arg = "full_url"

Rejected(item) ==
  {n \in 1..Len(item.value.l) : parse(item.value.l[n]["periodo"].s).kind # "ok"}

(* C20: when a Reading Record of a measurement list has a period parse     *)
(* rejects, build returns no table at all: it raises, and what it raises   *)
(* is the ValueError of parse for a rejected period of the payload.        *)
C20_InvalidPeriodRaised ==
  (results # Pending /\ payload.data = "dia") =>
    ((\E x \in Measurements : Rejected(ItemAt(x)) # {}) =>
       /\ results.kind = "ValueError"
       /\ \E x \in Measurements : \E n \in Rejected(ItemAt(x)) :
            results = parse(ItemAt(x).value.l[n]["periodo"].s))

C20_Witness ==
  /\ Len(payload.dia) = 2
  /\ payload.dia[1][1].value =
       List(<<[periodo |-> P06, value |-> Str(<<"9">>)],
              [periodo |-> P126, value |-> Str(<<"9">>)]>>)
  /\ NonEmptyList(payload.dia[2][1].value)
  /\ results.kind = "ValueError"
  /\ results.arg = <<"1", "2", "6">>

(* The measurement lists that come before x in the order build visits.     *)
Earlier(x) == {y \in Measurements : y[1] < x[1] \/ (y[1] = x[1] /\ y[2] < x[2])}

(* C21: a rejected period fails the table of its own measurement key only; *)
(* the tables of the keys completed before it remain in what the caller    *)
(* gets.  process_municipality_data keeps them in a local mapping that the *)
(* escaping ValueError discards.                                           *)
C21_CompletedTablesKept ==
  (results # Pending /\ payload.data = "dia") =>
    \A x \in Measurements :
      ( /\ Rejected(ItemAt(x)) # {}
        /\ \A y \in Earlier(x) : WellFormed(ItemAt(y)) )
        => \A y \in Earlier(x) : HasTable(y[1], ItemAt(y).key)

(* C22: a Reading Record that lacks a field other than the period makes    *)
(* neither build nor reshape fail, a wind list none of whose records       *)
(* carries the field included: every list whose periods parse has a table  *)
(* with a row for each of its timestamps.  The aggregation of              *)
(* format_wind_df raises KeyError for a wind list without a column of its  *)
(* three.                                                                  *)
C22_MissingFieldAbsorbed ==
  (results # Pending /\ payload.data = "dia") =>
    ( ( /\ Measurements # {}
        /\ \A x \in Measurements : Rejected(ItemAt(x)) = {} )
      => /\ results.kind = "ok"
         /\ \A x \in Measurements :
              Index(results.tables[DayDate(x[1])][ItemAt(x).key].rows)
                = {Stamp(DayDate(x[1]), ItemAt(x).value.l[n]) : n \in 1..Len(ItemAt(x).value.l)} )

(***************************************************************************)
(* fetch_predictions and read_and_write_predictions                        *)
(* (src/src/aemet/files/get_canary_predictions.py).                        *)
(*                                                                         *)
(* A municipality is the number of tables its forecast holds.  What an     *)
(* attempt meets is an environment: whether process_municipality_data      *)
(* raises, and for each table what client.write_dataframe does with it.    *)
(***************************************************************************)
MAX_RETRIES == 10

MaxMun == 2

(* The numbers of tables a forecast may hold. *)
TableCounts == 1..2

WriteResults == {"ok", "InfluxDBClientError", "Exception"}

(* The first table whose write raises; 0 when none does. *)
first_failure(write) ==
  IF \A k \in DOMAIN write : write[k] = "ok" THEN 0
  ELSE CHOOSE k \in DOMAIN write : write[k] # "ok" /\ \A j \in DOMAIN write : j < k => write[j] = "ok"

(* read_and_write_predictions: how the call ends and how many tables it    *)
(* handed to client.write_dataframe, in order, the failing one included.   *)
read_and_write_predictions(tables, env) ==
  IF env.fetch # "ok" THEN [kind |-> "Exception", handed |-> 0]
  ELSE IF first_failure(env.write) = 0 THEN [kind |-> "ok", handed |-> tables]
  ELSE [kind |-> env.write[first_failure(env.write)], handed |-> first_failure(env.write)]

(* A plausible slip: the warning of the finally clause tested on success alone. *)
finally_warns_any_failure(r, succ) == ~succ

(* finally: if retries == MAX_RETRIES and not success *)
finally_warns(r, succ) == r = MAX_RETRIES /\ ~succ

(* A plausible slip: no except clause of its own for InfluxDBClientError. *)
attempt_influx_retried(r, kind) ==
  IF kind = "ok" THEN [retries |-> r, success |-> TRUE, stopped |-> FALSE, warn |-> FALSE]
  ELSE [retries |-> r + 1, success |-> FALSE, stopped |-> FALSE,
        warn |-> finally_warns(r + 1, FALSE)]

(* One pass of the body of the while loop, lines 86-113: try, the except   *)
(* clause that matches, finally.                                           *)
attempt(r, kind) ==
  IF kind = "ok"
  THEN [retries |-> r, success |-> TRUE, stopped |-> FALSE, warn |-> finally_warns(r, TRUE)]
  ELSE IF kind = "InfluxDBClientError"
    THEN [retries |-> r, success |-> FALSE, stopped |-> TRUE, warn |-> finally_warns(r, FALSE)]
  ELSE [retries |-> r + 1, success |-> FALSE, stopped |-> FALSE,
        warn |-> finally_warns(r + 1, FALSE)]

(* The tables that came after a failed write and that no later attempt has *)
(* handed to the writer.                                                   *)
left_unwritten(before, tables, call) ==
  (before \ (1..call.handed))
    \cup (IF call.kind # "ok" /\ call.handed > 0 THEN (call.handed + 1)..tables ELSE {})

InitFetch ==
  /\ \E n \in 0..MaxMun : municipalities \in [1..n -> TableCounts]
  /\ mun = 1
  /\ retries = 0
  /\ success = FALSE
  /\ stopped = FALSE
  /\ completed = FALSE
  /\ attempts = [m \in 1..Len(municipalities) |-> <<>>]
  /\ warned_max = [m \in 1..Len(municipalities) |-> 0]
  /\ unwritten = [m \in 1..Len(municipalities) |-> {}]
  /\ IdleHandler /\ IdleHttp /\ IdleTask /\ IdleRows /\ IdleMonths

Record(call, after) ==
  /\ retries' = after.retries
  /\ success' = after.success
  /\ stopped' = after.stopped
  /\ attempts' = [attempts EXCEPT ![mun] = Append(@, call.kind)]
  /\ warned_max' = [warned_max EXCEPT ![mun] = IF after.warn THEN @ + 1 ELSE @]
  /\ unwritten' = [unwritten EXCEPT ![mun] = left_unwritten(@, municipalities[mun], call)]

(* while retries < MAX_RETRIES and not success: one attempt *)
Attempt ==
  /\ mun <= Len(municipalities)
  /\ retries < MAX_RETRIES /\ ~success /\ ~stopped
  /\ \E fetch \in {"ok", "raise"} :
       \E write \in [1..municipalities[mun] -> WriteResults] :
         Record(read_and_write_predictions(municipalities[mun], [fetch |-> fetch, write |-> write]),
                attempt(retries,
                        read_and_write_predictions(municipalities[mun],
                                                   [fetch |-> fetch, write |-> write]).kind))
  /\ UNCHANGED <<municipalities, mun, completed>>
  /\ UNCHANGED <<handler_vars, http_vars, task_vars, rows_vars, month_vars>>

(* The while loop left: the for loop takes the next municipality. *)
NextMunicipality ==
  /\ mun <= Len(municipalities)
  /\ ~(retries < MAX_RETRIES /\ ~success /\ ~stopped)
  /\ mun' = mun + 1
  /\ retries' = 0
  /\ success' = FALSE
  /\ stopped' = FALSE
  /\ UNCHANGED <<municipalities, completed, attempts, warned_max, unwritten>>
  /\ UNCHANGED <<handler_vars, http_vars, task_vars, rows_vars, month_vars>>

(* logger.info("Proceso completado.") *)
Completed ==
  /\ mun > Len(municipalities)
  /\ ~completed
  /\ completed' = TRUE
  /\ UNCHANGED <<municipalities, mun, retries, success, stopped, attempts, warned_max, unwritten>>
  /\ UNCHANGED <<handler_vars, http_vars, task_vars, rows_vars, month_vars>>

NextFetch == Attempt \/ NextMunicipality \/ Completed

SpecFetch == InitFetch /\ [][NextFetch]_vars

(* The interpreter runs the loops on: each step that can be taken is taken. *)
SpecFetchLive == SpecFetch /\ WF_vars(NextFetch)

(* C23: a failed write of one table is handled for that table only: the    *)
(* tables of the municipality that come after it are still handed to the   *)
(* writer.  The exception leaves read_and_write_predictions, and after an  *)
(* InfluxDBClientError the municipality is given up.                       *)
C23_SiblingsStillWritten ==
  completed => \A m \in DOMAIN unwritten : unwritten[m] = {}

AllFailed(m) ==
  /\ Len(attempts[m]) = 10
  /\ \A i \in 1..Len(attempts[m]) : attempts[m][i] = "Exception"

C26_Attempts ==
  \A m \in DOMAIN attempts :
    /\ Len(attempts[m]) <= 10
    /\ m < mun => Len(attempts[m]) >= 1
    /\ \A i \in 1..Len(attempts[m]) : attempts[m][i] = "ok" => i = Len(attempts[m])
    /\ warned_max[m] = (IF AllFailed(m) THEN 1 ELSE 0)

(* C26: every municipality is attempted at least once and at most 10       *)
(* times, never after a success; the "maximum attempts" warning is logged  *)
(* for it exactly when 10 attempts failed with an error other than         *)
(* InfluxDBClientError; and the loop over the municipalities ends.         *)
C26_BoundedAttempts == []C26_Attempts /\ <>completed

C26_Witness ==
  /\ completed
  /\ Len(municipalities) = 2
  /\ AllFailed(1)
  /\ warned_max = <<1, 0>>
  /\ attempts[2] = <<"Exception", "ok">>

(* C27: an InfluxDBClientError is the last attempt of its municipality and *)
(* leaves success unset; another exception is followed by a new attempt    *)
(* until 10 have failed; and every municipality is attempted whatever      *)
(* happened to the ones before it.                                         *)
C27_InfluxEndsOthersRetry ==
  \A m \in DOMAIN attempts :
    /\ \A i \in 1..Len(attempts[m]) :
         attempts[m][i] = "InfluxDBClientError" => i = Len(attempts[m])
    /\ (m = mun /\ Len(attempts[m]) > 0 /\ attempts[m][Len(attempts[m])] = "InfluxDBClientError")
         => ~success
    /\ m < mun =>
         /\ Len(attempts[m]) >= 1
         /\ attempts[m][Len(attempts[m])] = "Exception" => Len(attempts[m]) = 10
         /\ \A i \in 1..(Len(attempts[m]) - 1) : attempts[m][i] = "Exception"
    /\ completed => m < mun

C27_Witness ==
  /\ completed
  /\ Len(municipalities) = 2
  /\ attempts[1] = <<"Exception", "InfluxDBClientError">>
  /\ attempts[2] = <<"ok">>

(***************************************************************************)
(* AemetBaseHandler.fetch_data (data_handler.py, lines 86-134).            *)
(*                                                                         *)
(* What requests.get meets, for each of the three requests: no response    *)
(* (a transport error), or a response with its HTTP status and its body;   *)
(* a body is no JSON or is the JSON value it holds.                        *)
(***************************************************************************)
Transport == [kind |-> "transport"]

Response(status, body) == [kind |-> "http", status |-> status, body |-> body]

NotJson == [json |-> FALSE]

Json(value) == [json |-> TRUE, value |-> value]

Statuses == {200, 404, 500}

(* The body of the first response: estado, and whether it names the URLs   *)
(* datos and metadatos.                                                    *)
FirstBodies ==
  {NotJson} \cup {Json([estado |-> e, urls |-> u]) : e \in {200, 404, 0}, u \in BOOLEAN}

(* The body of the second and third response: a list of objects, an empty  *)
(* list, or the object with which the API describes an error.              *)
DataBodies == {NotJson, Json("list"), Json("empty"), Json("error object")}

RequestError(cause) == [kind |-> "ValueError", text |-> "Error en la consulta a la API", cause |-> cause]

ProcessError(cause) ==
  [kind |-> "ValueError", text |-> "Error al procesar la respuesta de la API", cause |-> cause]

(* requests.get(url, ...).json() with no raise_for_status: lines 113-122.  *)
(* A missing URL is requests.get(None): MissingSchema.                     *)
get_json(has_url, r) ==
  IF ~has_url THEN RequestError("MissingSchema")
  ELSE IF r.kind = "transport" THEN RequestError("RequestException")
  ELSE IF ~r.body.json THEN ProcessError("JSONDecodeError")
  ELSE [kind |-> "ok", value |-> r.body.value]

(* data or [{}] *)
or_empty(value) == IF value = "empty" THEN "[{}]" ELSE value

(* return {"data": ..., "metadata": ...}, or the exception of the first    *)
(* of the two requests that raises                                         *)
fetch_return(data, metadata) ==
  IF data.kind # "ok" THEN data
  ELSE IF metadata.kind # "ok" THEN metadata
  ELSE [kind |-> "ok", data |-> or_empty(data.value), metadata |-> or_empty(metadata.value)]

fetch_data(a) ==
  IF a.first.kind = "transport" THEN RequestError("RequestException")
  ELSE IF a.first.status >= 400 THEN RequestError("HTTPError")
  ELSE IF ~a.first.body.json THEN ProcessError("JSONDecodeError")
  ELSE IF a.first.body.value.estado # 200 THEN ProcessError("Estado de la consulta erroneo")
  ELSE fetch_return(get_json(a.first.body.value.urls, a.datos),
                    get_json(a.first.body.value.urls, a.metadatos))

InitHttp ==
  /\ \E first \in {Transport} \cup {Response(st, b) : st \in Statuses, b \in FirstBodies} :
       \E datos, metadatos \in {Transport} \cup {Response(st, b) : st \in Statuses, b \in DataBodies} :
         api = [first |-> first, datos |-> datos, metadatos |-> metadatos]
  /\ fetched = Pending
  /\ IdleHandler /\ IdleFetch /\ IdleTask /\ IdleRows /\ IdleMonths

FetchData ==
  /\ fetched = Pending
  /\ fetched' = fetch_data(api)
  /\ UNCHANGED <<api, handler_vars, fetch_vars, task_vars, rows_vars, month_vars>>

NextHttp == FetchData

SpecHttp == InitHttp /\ [][NextHttp]_vars

Succeeded(r) == r.kind = "http" /\ r.status < 400

(* C25: fetch_data returns a payload only if none of its three requests    *)
(* met a transport error or an HTTP error status and the API reported      *)
(* estado 200.  The responses of the datos and metadatos requests are      *)
(* never passed to raise_for_status.                                       *)
C25_FetchRaisesOnFailure ==
  fetched.kind = "ok" =>
    /\ Succeeded(api.first)
    /\ Succeeded(api.datos)
    /\ Succeeded(api.metadatos)
    /\ api.first.body.json
    /\ api.first.body.value.estado = 200

(***************************************************************************)
(* TaskManager.execute_task (src/src/common/task_manager.py).              *)
(*                                                                         *)
(* The scheduler runs the task MaxRuns times at most.  A run meets the way *)
(* the script's process ends ("zero", "nonzero", or "oserror" when         *)
(* subprocess.run itself raises, as for a missing interpreter) and what    *)
(* client.write_points does at its first and at its second call.           *)
(***************************************************************************)
MaxRuns == 2

ScriptEnds == {"zero", "nonzero", "oserror"}

WriteEnds == {"ok", "raise"}

(* _record_status as the last call of execute_task: the point is written   *)
(* and execute_task returns, or RuntimeError leaves execute_task.          *)
record_status_last(before, value, w) ==
  IF w = "ok" THEN [written |-> Append(before, value), end |-> "returned"]
  ELSE [written |-> before, end |-> "RuntimeError"]

(* Lines 57-68 once _run_script has returned result: _record_status in the *)
(* try block and, when it raises, the one of the except clause.            *)
record_result(result, w) ==
  IF w[1] = "ok" THEN [written |-> <<IF result THEN 1 ELSE 0>>, end |-> "returned"]
  ELSE record_status_last(<<>>, 0, w[2])

execute_task(exit, w) ==
  IF exit = "oserror" THEN record_status_last(<<>>, 0, w[1])
  ELSE record_result(exit = "zero", w)

InitTask ==
  /\ \E n \in 1..MaxRuns :
       /\ script \in [1..n -> ScriptEnds]
       /\ store_up \in [1..n -> [1..2 -> WriteEnds]]
  /\ store = <<>>
  /\ escaped = <<>>
  /\ IdleHandler /\ IdleFetch /\ IdleHttp /\ IdleRows /\ IdleMonths

ExecuteTask ==
  /\ Len(escaped) < Len(script)
  /\ store' = Append(store, execute_task(script[Len(escaped) + 1], store_up[Len(escaped) + 1]).written)
  /\ escaped' = Append(escaped, execute_task(script[Len(escaped) + 1], store_up[Len(escaped) + 1]).end)
  /\ UNCHANGED <<script, store_up, handler_vars, fetch_vars, http_vars, rows_vars, month_vars>>

NextTask == ExecuteTask

SpecTask == InitTask /\ [][NextTask]_vars

(* C24: a run whose script fails, or in which running the script or        *)
(* recording the status raises, has the flag 0 recorded and returns: no    *)
(* exception leaves execute_task.  The _record_status of the except clause *)
(* is itself unguarded.                                                    *)
C24_FailureRecordedNoEscape ==
  \A i \in 1..Len(escaped) :
    /\ escaped[i] = "returned"
    /\ (script[i] # "zero" \/ store_up[i][1] = "raise")
         => \E k \in 1..Len(store[i]) : store[i][k] = 0

(* C28: a run writes at most one status point, and the value written is 1  *)
(* exactly when the script exited with status zero.  A failed write of the *)
(* flag 1 is followed by a write of the flag 0.                            *)
C28_FlagMatchesExit ==
  \A i \in 1..Len(store) :
    /\ Len(store[i]) <= 1
    /\ \A k \in 1..Len(store[i]) : (store[i][k] = 1) <=> (script[i] = "zero")

(***************************************************************************)
(* StationMetadataFetcher.run                                              *)
(* (src/src/grafcan/files/update_historical_locations.py, lines 161-196).  *)
(*                                                                         *)
(* The listing of the historical locations is an exception or a list; a    *)
(* location of the list is what build_row makes of it: "row", or "None"    *)
(* when a request or the parsing of its answer raised.  Writing the file   *)
(* is taken to succeed.                                                    *)
(***************************************************************************)
MaxLocs == 5

BuildRows == {"row", "None"}

Listing(locations) == [kind |-> "ok", results |-> locations]

ListingFailed == [kind |-> "Exception"]

(* self.error.handle_error(...) followed by the end of run *)
Handled(text) == [kind |-> "handled", text |-> text]

(* Lines 180-187, one pass of the loop: row.index = [n] comes before the   *)
(* test of row, and None has no attributes to set.                         *)
loop_body(row, n, data) ==
  IF row = "None"
  THEN [kind |-> "AttributeError", text |-> "'NoneType' object has no attribute 'index'"]
  ELSE [kind |-> "ok", stations_data |-> Append(data, n)]

(* Lines 189-196: pd.concat raises ValueError on an empty list. *)
save(data) ==
  IF data = <<>> THEN Handled("Error al guardar datos historicos")
  ELSE [kind |-> "saved", rows |-> data]

InitRows ==
  /\ \/ historical_location = ListingFailed
     \/ \E n \in 0..MaxLocs :
          \E locations \in [1..n -> BuildRows] : historical_location = Listing(locations)
  /\ n_location = 0
  /\ stations_data = <<>>
  /\ csv = Pending
  /\ IdleHandler /\ IdleFetch /\ IdleHttp /\ IdleTask /\ IdleMonths

(* Lines 163-176 *)
ListingError ==
  /\ csv = Pending
  /\ historical_location.kind # "ok"
  /\ csv' = Handled("Error al obtener o formatear datos historicos")
  /\ UNCHANGED <<historical_location, n_location, stations_data>>
  /\ UNCHANGED <<handler_vars, fetch_vars, http_vars, task_vars, month_vars>>

BuildRow ==
  /\ csv = Pending
  /\ historical_location.kind = "ok"
  /\ n_location < Len(historical_location.results)
  /\ n_location' = n_location + 1
  /\ IF loop_body(historical_location.results[n_location + 1], n_location + 1, stations_data).kind = "ok"
     THEN /\ stations_data' =
               loop_body(historical_location.results[n_location + 1], n_location + 1,
                         stations_data).stations_data
          /\ csv' = csv
     ELSE /\ csv' = loop_body(historical_location.results[n_location + 1], n_location + 1,
                              stations_data)
          /\ stations_data' = stations_data
  /\ UNCHANGED historical_location
  /\ UNCHANGED <<handler_vars, fetch_vars, http_vars, task_vars, month_vars>>

SaveCsv ==
  /\ csv = Pending
  /\ historical_location.kind = "ok"
  /\ n_location = Len(historical_location.results)
  /\ csv' = save(stations_data)
  /\ UNCHANGED <<historical_location, n_location, stations_data>>
  /\ UNCHANGED <<handler_vars, fetch_vars, http_vars, task_vars, month_vars>>

NextRows == ListingError \/ BuildRow \/ SaveCsv

SpecRows == InitRows /\ [][NextRows]_vars

Built == {n \in 1..Len(historical_location.results) : historical_location.results[n] = "row"}

(* C29: a location whose row build_row could not build is left out and the *)
(* others are still processed: when run ends, the CSV holds one row for    *)
(* every location whose row was built.  run sets row.index before it tests *)
(* row, and ends with AttributeError at the first None.                    *)
C29_FailedRowOmitted ==
  (csv # Pending /\ historical_location.kind = "ok" /\ Built # {}) =>
    /\ csv.kind = "saved"
    /\ {csv.rows[k] : k \in 1..Len(csv.rows)} = Built
    /\ Len(csv.rows) = Cardinality(Built)

(***************************************************************************)
(* The month loop of main                                                  *)
(* (src/src/grafcan/files/historical_data_script.py, lines 271-382).       *)
(*                                                                         *)
(* A datetime is its year, month, day and second of the day; datetime(...) *)
(* raises ValueError for a year after datetime.MAXYEAR.  The dates are     *)
(* taken from the years after 2022 and from the last years of the          *)
(* calendar, at most MaxYears years apart.                                 *)
(***************************************************************************)
MAXYEAR == 9999

MaxYears == 2

StartYears == {2023, MAXYEAR - 1}

At(y, m, d, s) == [kind |-> "datetime", y |-> y, m |-> m, d |-> d, s |-> s]

YearError(y) == [kind |-> "ValueError", text |-> "year is out of range", arg |-> y]

datetime(y, m, d, s) == IF y > MAXYEAR THEN YearError(y) ELSE At(y, m, d, s)

is_leap(y) == y % 4 = 0 /\ (y % 100 # 0 \/ y % 400 = 0)

days_in_month(y, m) ==
  IF m = 2 THEN (IF is_leap(y) THEN 29 ELSE 28)
  ELSE IF m \in {4, 6, 9, 11} THEN 30 ELSE 31

(* a < b and a <= b of two datetimes *)
Lt(a, b) ==
  \/ a.y < b.y
  \/ a.y = b.y /\ a.m < b.m
  \/ a.y = b.y /\ a.m = b.m /\ a.d < b.d
  \/ a.y = b.y /\ a.m = b.m /\ a.d = b.d /\ a.s < b.s

Le(a, b) == a = b \/ Lt(a, b)

min(a, b) == IF Le(a, b) THEN a ELSE b

max(a, b) == IF Le(a, b) THEN b ELSE a

(* dt - timedelta(seconds=1); an exception is passed on *)
minus_one_second(dt) ==
  IF dt.kind # "datetime" THEN dt
  ELSE IF dt.s > 0 THEN At(dt.y, dt.m, dt.d, dt.s - 1)
  ELSE IF dt.d > 1 THEN At(dt.y, dt.m, dt.d - 1, 86399)
  ELSE IF dt.m > 1 THEN At(dt.y, dt.m - 1, days_in_month(dt.y, dt.m - 1), 86399)
  ELSE At(dt.y - 1, 12, 31, 86399)

(* Lines 377-382 (and 310-316): the first day of the next month *)
next_month_start(cur) ==
  IF cur.m = 12 THEN datetime(cur.y + 1, 1, 1, 0) ELSE datetime(cur.y, cur.m + 1, 1, 0)

(* Lines 275-282 *)
current_month_end(cur) == minus_one_second(next_month_start(cur))

(* A plausible slip: the end date taken at 00:00:00. *)
actual_month_end_query_midnight(month_end, end) ==
  min(month_end, datetime(end.y, end.m, end.d, 0))

(* Lines 285-295 *)
actual_month_end_query(month_end, end) ==
  min(month_end, datetime(end.y, end.m, end.d, 23 * 3600 + 59 * 60 + 59))

(* Lines 296-306 *)
actual_month_start_query(cur, start) ==
  max(cur, datetime(start.y, start.m, start.d, 0))

Window(cur, from, to) == [month |-> <<cur.y, cur.m>>, from |-> from, to |-> to]

(* The days a date is drawn from: the first, the fifteenth, the last. *)
Dates(y) == {At(y, m, d, 0) : m \in 1..12, d \in {1, 15, 28, 29, 30, 31}}

InitMonths ==
  /\ \E y1 \in StartYears : \E y2 \in y1..(y1 + MaxYears - 1) :
       /\ y2 <= MAXYEAR
       /\ start_datetime \in {x \in Dates(y1) : x.d \in {1, 15, days_in_month(x.y, x.m)}}
       /\ end_datetime \in {x \in Dates(y2) : x.d \in {1, 15, days_in_month(x.y, x.m)}}
  /\ Le(start_datetime, end_datetime)
  /\ current_month_start = datetime(start_datetime.y, start_datetime.m, 1, 0)
  /\ queried = <<>>
  /\ finished = "running"
  /\ IdleHandler /\ IdleFetch /\ IdleHttp /\ IdleTask /\ IdleRows

(* One pass of the while loop. *)
MonthStep ==
  /\ finished = "running"
  /\ Le(current_month_start, end_datetime)
  /\ IF current_month_end(current_month_start).kind # "datetime"
     THEN /\ finished' = "ValueError"
          /\ UNCHANGED <<current_month_start, queried>>
     ELSE /\ finished' = finished
          /\ current_month_start' = next_month_start(current_month_start)
          /\ queried' =
               IF Lt(actual_month_end_query(current_month_end(current_month_start), end_datetime),
                     actual_month_start_query(current_month_start, start_datetime))
               THEN queried
               ELSE Append(queried,
                      Window(current_month_start,
                             actual_month_start_query(current_month_start, start_datetime),
                             actual_month_end_query(current_month_end(current_month_start),
                                                    end_datetime)))
  /\ UNCHANGED <<start_datetime, end_datetime>>
  /\ UNCHANGED <<handler_vars, fetch_vars, http_vars, task_vars, rows_vars>>

(* The guard of the while loop false: "Data extraction process finished." *)
LoopExit ==
  /\ finished = "running"
  /\ ~Le(current_month_start, end_datetime)
  /\ finished' = "done"
  /\ UNCHANGED <<start_datetime, end_datetime, current_month_start, queried>>
  /\ UNCHANGED <<handler_vars, fetch_vars, http_vars, task_vars, rows_vars>>

NextMonths == MonthStep \/ LoopExit

SpecMonths == InitMonths /\ [][NextMonths]_vars

(* The interpreter runs the loop on. *)
SpecMonthsLive == SpecMonths /\ WF_vars(NextMonths)

(***************************************************************************)
(* The calendar as the claim about the month loop reads it.                *)
(***************************************************************************)
MonthNumber(y, m) == 12 * y + m

LastDay(y, m) ==
  CASE m \in {1, 3, 5, 7, 8, 10, 12} -> 31
    [] m \in {4, 6, 9, 11} -> 30
    [] m = 2 /\ (y % 400 = 0 \/ (y % 4 = 0 /\ y % 100 # 0)) -> 29
    [] OTHER -> 28

MonthsOfRange ==
  MonthNumber(end_datetime.y, end_datetime.m)
    - MonthNumber(start_datetime.y, start_datetime.m) + 1

(* Every month that overlaps the range is visited once, in increasing      *)
(* order, with the window [max(month start, start 00:00:00),               *)
(* min(month end, end 23:59:59)]; the windows follow one another without   *)
(* overlap and stay within the range.                                      *)
MonthsVisited ==
  /\ Len(queried) = MonthsOfRange
  /\ \A k \in 1..Len(queried) :
       /\ MonthNumber(queried[k].month[1], queried[k].month[2])
            = MonthNumber(start_datetime.y, start_datetime.m) + k - 1
       /\ queried[k].from =
            IF k = 1 THEN [start_datetime EXCEPT !.s = 0]
            ELSE [kind |-> "datetime", y |-> queried[k].month[1], m |-> queried[k].month[2],
                  d |-> 1, s |-> 0]
       /\ queried[k].to =
            IF k = MonthsOfRange THEN [end_datetime EXCEPT !.s = 86399]
            ELSE [kind |-> "datetime", y |-> queried[k].month[1], m |-> queried[k].month[2],
                  d |-> LastDay(queried[k].month[1], queried[k].month[2]), s |-> 86399]
       /\ Le(queried[k].from, queried[k].to)
       /\ k > 1 => Lt(queried[k - 1].to, queried[k].from)

(* C30 as stated: for any start_date <= end_date the month loop ends       *)
(* having visited every month of the range with its window.                *)
C30_MonthLoopAnyRange ==
  finished # "running" => (finished = "done" /\ MonthsVisited)

EndsBeforeLastMonth == ~(end_datetime.y = 9999 /\ end_datetime.m = 12)

(* C30, amended: for any start_date <= end_date with end_date before       *)
(* December 9999 the month loop terminates and has then visited every      *)
(* month of the range once, in order, each with its window.                *)
C30_MonthLoopBeforeLastMonth ==
  /\ [](EndsBeforeLastMonth =>
          /\ finished # "ValueError"
          /\ finished = "done" => MonthsVisited)
  /\ (EndsBeforeLastMonth => <>(finished = "done"))

C30_Witness ==
  /\ finished = "done"
  /\ start_datetime = [kind |-> "datetime", y |-> 2023, m |-> 12, d |-> 15, s |-> 0]
  /\ end_datetime = [kind |-> "datetime", y |-> 2024, m |-> 2, d |-> 29, s |-> 0]
  /\ Len(queried) = 3
  /\ queried[1].to = [kind |-> "datetime", y |-> 2023, m |-> 12, d |-> 31, s |-> 86399]
  /\ queried[3].from = [kind |-> "datetime", y |-> 2024, m |-> 2, d |-> 1, s |-> 0]
  /\ queried[3].to = [kind |-> "datetime", y |-> 2024, m |-> 2, d |-> 29, s |-> 86399]

====
